---- MODULE Spec2Model ----
(***************************************************************************)
(* MindFresh, the Recommendations page: the mood-driven recommendation     *)
(* aggregator (src/src/pages/Recommendations.tsx), its earlier variant     *)
(* (src/unnamed/part_000) and the youtube-search relay                     *)
(* (src/unnamed/part_001).                                                 *)
(*                                                                         *)
(* The page is a React component running on a single-threaded event loop: *)
(* every action below is one task of that loop (an effect, a click, the   *)
(* continuation of an awaited promise together with the microtasks it     *)
(* triggers).                                                              *)
(*                                                                         *)
(* Specifications:                                                         *)
(*   Spec            the orchestrator under every provider response       *)
(*   FairSpec        Spec, every provider call settling eventually        *)
(*   RefreshSpec     first render, mood change and Refresh button, the    *)
(*                   providers answering with their catalogue             *)
(*   ClassifierSpec  the page under every mood of the scale               *)
(*   AdapterSpec     the adapters on provider pages of any length         *)
(*   PlaybackSpec    the playback machines of both variants of the page   *)
(*   DetailSpec      the book detail selection                            *)
(*   PageSpec        refreshes, playback and detail selection on one page *)
(*   RelaySpec       the two handlers of the youtube-search relay         *)
(***************************************************************************)
EXTENDS Integers, Sequences, FiniteSets, TLC

\* ------------------------------------------------------------------ bounds
\* loadRecommendations() calls explored in one behaviour.
MaxRefreshes == 2
\* Longest page of tracks a provider call returns.
MaxTracks == 8
\* Longest page of videos or books a provider call returns.
MaxItems == 7
\* Requests the relay handles in one behaviour.
MaxRequests == 2

\* -------------------------------------------------------- program constants
\* fullTracks.slice(0, 6)
PageSize == 6
\* track.duration > 30
MinDuration == 30
\* useState(5)
DefaultMood == 5

\* ------------------------------------------------------------- JSON values
\* A JSON value as the adapters look at it: a missing field (undefined, falsy),
\* a truthy value that is not an array, or an array of items.
Undef == [t |-> "undefined"]
Obj == [t |-> "object"]
Arr(s) == [t |-> "array", a |-> s]
Truthy(v) == v.t # "undefined"
EmptyList == Arr(<<>>)

\* The three Source Adapters of a refresh.
Adapters == {"tracks", "videos", "books"}

\* ---------------------------------------------------------- Mood Classifier
\* Faulty variant of getMoodBasedContent: the low band ends below 3.
getMoodBasedContent_LowBelow3(mood) ==
    IF mood < 3 THEN
        [musicQuery |-> "relaxing meditation ambient",
         podcastQuery |-> "mental health therapy mindfulness",
         bookQuery |-> "self help depression anxiety"]
    ELSE IF mood <= 6 THEN
        [musicQuery |-> "chill peaceful calm",
         podcastQuery |-> "motivation wellness lifestyle",
         bookQuery |-> "psychology happiness mindfulness"]
    ELSE
        [musicQuery |-> "uplifting energetic positive",
         podcastQuery |-> "success motivation inspiration",
         bookQuery |-> "personal development success happiness"]

getMoodBasedContent(mood) ==
    IF mood <= 3 THEN
        [musicQuery |-> "relaxing meditation ambient",
         podcastQuery |-> "mental health therapy mindfulness",
         bookQuery |-> "self help depression anxiety"]
    ELSE IF mood <= 6 THEN
        [musicQuery |-> "chill peaceful calm",
         podcastQuery |-> "motivation wellness lifestyle",
         bookQuery |-> "psychology happiness mindfulness"]
    ELSE
        [musicQuery |-> "uplifting energetic positive",
         podcastQuery |-> "success motivation inspiration",
         bookQuery |-> "personal development success happiness"]

\* The query an adapter of a refresh started under `mood` is called with.
QueryOf(a, mood) ==
    IF a = "tracks" THEN getMoodBasedContent(mood).musicQuery
    ELSE IF a = "videos" THEN getMoodBasedContent(mood).podcastQuery
    ELSE getMoodBasedContent(mood).bookQuery

\* ------------------------------------------------- providers (environment)
\* What a provider holds for a query: every item carries the query it matches.
\* The track catalogue is the spec's example (durations 15, 45, 200).
TrackCatalogue(q) ==
    << [id |-> "S", title |-> "snippet", user |-> "artist", duration |-> 15, query |-> q],
       [id |-> "A", title |-> "song a", user |-> "artist", duration |-> 45, query |-> q],
       [id |-> "B", title |-> "song b", user |-> "artist", duration |-> 200, query |-> q] >>
VideoCatalogue(q) ==
    << [id |-> "v1", snippet |-> "talk", query |-> q] >>
BookCatalogue(q) ==
    << [id |-> "X", volumeInfo |-> "book x", query |-> q],
       [id |-> "Y", volumeInfo |-> "book y", query |-> q] >>
\* Items whose shape does not match the interfaces Track, YouTubeVideo, Book.
MalformedTracks == << [id |-> "M", duration |-> 45] >>
MalformedVideos == << [kind |-> "youtube#channel"] >>
MalformedBooks == << [id |-> "Z"] >>

\* A settled provider call as the adapter sees it:
\*   neterr   the call rejects (fetch throws, FunctionsFetchError)
\*   status   a non-success status (response.ok false, FunctionsHttpError)
\*   badjson  the body does not parse (response.json() rejects)
\*   json     a parsed body; `field` is its data / items field
ErrorKinds == {"neterr", "status", "badjson"}
Responses(catalogue, malformed) ==
    {[kind |-> k, field |-> Undef] : k \in ErrorKinds}
    \cup {[kind |-> "json", field |-> f] :
            f \in {Undef, Obj, EmptyList, Arr(catalogue), Arr(malformed)}}
TrackResponses(q) == Responses(TrackCatalogue(q), MalformedTracks)
VideoResponses(q) == Responses(VideoCatalogue(q), MalformedVideos)
BookResponses(q) == Responses(BookCatalogue(q), MalformedBooks)

\* ---------------------------------------------------------- Source Adapters
\* What one adapter call does when its provider call has settled with `resp`,
\* `cur` being the list it owns: the list afterwards, the toasts it emits, and
\* whether the adapter's promise rejects to Promise.all.
Outcome(list, n) == [list |-> list, toasts |-> n, rejects |-> FALSE]

RECURSIVE Filter(_, _)
\* Array.prototype.filter with the predicate track.duration > 30 (an item
\* without a duration compares undefined > 30, which is false).
Filter(s, min) ==
    IF s = <<>> THEN <<>>
    ELSE LET x == Head(s)
             keep == "duration" \in DOMAIN x /\ x.duration > min
         IN (IF keep THEN <<x>> ELSE <<>>) \o Filter(Tail(s), min)

\* Array.prototype.slice(0, n)
Slice(s, n) == SubSeq(s, 1, IF Len(s) < n THEN Len(s) ELSE n)

\* Faulty variant of fetchAudiusTracks: the page is cut to six items before
\* the short tracks are filtered out.
fetchAudiusTracks_SliceFirst(resp, cur) ==
    IF resp.kind = "neterr" THEN Outcome(cur, 1)
    ELSE IF resp.kind = "status" THEN Outcome(cur, 0)
    ELSE IF resp.kind = "badjson" THEN Outcome(cur, 1)
    ELSE IF ~Truthy(resp.field) THEN Outcome(EmptyList, 0)
    ELSE IF resp.field.t # "array" THEN Outcome(cur, 1)
    ELSE Outcome(Arr(Filter(Slice(resp.field.a, PageSize), MinDuration)), 0)

fetchAudiusTracks(resp, cur) ==
    IF resp.kind = "neterr" THEN Outcome(cur, 1)
    ELSE IF resp.kind = "status" THEN Outcome(cur, 0)
    ELSE IF resp.kind = "badjson" THEN Outcome(cur, 1)
    ELSE IF ~Truthy(resp.field) THEN Outcome(EmptyList, 0)
    ELSE IF resp.field.t # "array" THEN Outcome(cur, 1)
    ELSE Outcome(Arr(Slice(Filter(resp.field.a, MinDuration), PageSize)), 0)

fetchYouTubeVideos(resp, cur) ==
    IF resp.kind # "json" THEN Outcome(cur, 1)
    ELSE IF Truthy(resp.field) THEN Outcome(resp.field, 0)
    ELSE Outcome(cur, 0)

\* Faulty variant of fetchBooks: the transport error is not caught and the adapter's
\* promise rejects.
fetchBooks_Uncaught(resp, cur) ==
    IF resp.kind = "neterr" THEN [list |-> cur, toasts |-> 0, rejects |-> TRUE]
    ELSE IF resp.kind = "status" THEN Outcome(cur, 0)
    ELSE IF resp.kind = "badjson" THEN Outcome(cur, 1)
    ELSE IF Truthy(resp.field) THEN Outcome(resp.field, 0)
    ELSE Outcome(EmptyList, 0)

fetchBooks(resp, cur) ==
    IF resp.kind = "neterr" THEN Outcome(cur, 1)
    ELSE IF resp.kind = "status" THEN Outcome(cur, 0)
    ELSE IF resp.kind = "badjson" THEN Outcome(cur, 1)
    ELSE IF Truthy(resp.field) THEN Outcome(resp.field, 0)
    ELSE Outcome(EmptyList, 0)

\* -------------------------------------------------------------------- state
VARIABLES
    mounted,        \* the component's effects have run once
    user,           \* useAuth().user
    currentMood,    \* useState(5)
    tracks,         \* useState<Track[]>([])
    videos,         \* useState<YouTubeVideo[]>([])
    books,          \* useState<Book[]>([])
    loading,        \* useState(true)
    toasts,         \* number of toast() calls so far
    refreshes,      \* loadRecommendations() calls, oldest first: those with an
                    \* adapter call in flight, and the latest one once settled
    refreshCount,   \* loadRecommendations() calls so far
    calls,          \* provider calls issued so far, per adapter
    budget,         \* loadRecommendations() calls still explored
    moodPending,    \* mood table queries in flight
    playingTracks,  \* useState<Set<string>>(new Set())
    audioPlaying,   \* ids of the <audio> elements that are playing
    currentTrack,   \* part_000: useState<string | null>(null)
    isPlaying,      \* part_000: useState(false)
    selectedBook,   \* useState<Book | null>(null)
    lastEvent,      \* history: the last user intent, media signal or payload
                    \* received, with the state it acted on
    relay           \* part_001: the request the youtube-search relay handles

batchVars == <<tracks, videos, books, loading>>
orchVars == <<mounted, user, currentMood, toasts, refreshes, refreshCount,
              calls, budget, moodPending>>
playVars == <<playingTracks, audioPlaying>>
playVars0 == <<currentTrack, isPlaying>>
uiVars == <<playVars, playVars0, selectedBook>>
vars == <<batchVars, orchVars, uiVars, lastEvent, relay>>

NoTrack == "null"
\* selectedBook = null
NoBook == [id |-> "null"]
\* lastEvent before anything has happened.
NoEvent == [op |-> "none", arg |-> <<>>, was |-> <<>>]

NoUser == "none"
Users == {NoUser, "u1"}
\* One mood value of each band of the classifier.
MoodReadings == {2, 5, 8}
\* What the mood table query settles with: an error or no row, or a row.
MoodResults == {[row |-> FALSE, mood_value |-> 0]}
               \cup {[row |-> TRUE, mood_value |-> m] : m \in MoodReadings}

\* The spec's failure taxonomy (section 7) for a settled provider call:
\* transport error, non-success status, or a payload whose shape does not
\* match (a non-list field, an item without its fields). It is recorded per
\* refresh for the claims; the adapters do not read it.
Failed(resp, malformed) ==
    \/ resp.kind \in ErrorKinds
    \/ resp.field = Obj
    \/ resp.field = Arr(malformed)

InFlight(r) == r.pending # {}
SomeInFlight == \E i \in 1..Len(refreshes) : InFlight(refreshes[i])

\* part_001: no request has reached the relay.
NoRequest == [method |-> "none", body |-> [kind |-> "none"]]
RelayIdle ==
    [variant |-> 0, req |-> NoRequest, key |-> FALSE, phase |-> "idle",
     upstream |-> <<>>, answer |-> [kind |-> "none"], responses |-> <<>>,
     served |-> 0]

\* The page before its first render, with n loadRecommendations() calls to
\* explore.
InitState(n) ==
    /\ mounted = FALSE
    /\ user \in Users
    /\ currentMood = DefaultMood
    /\ tracks = EmptyList
    /\ videos = EmptyList
    /\ books = EmptyList
    /\ loading = TRUE
    /\ toasts = 0
    /\ refreshes = <<>>
    /\ refreshCount = 0
    /\ calls = [a \in Adapters |-> 0]
    /\ budget = n
    /\ moodPending = 0
    /\ playingTracks = {}
    /\ audioPlaying = {}
    /\ currentTrack = NoTrack
    /\ isPlaying = FALSE
    /\ selectedBook = NoBook
    /\ lastEvent = NoEvent
    /\ relay = RelayIdle

Init == InitState(MaxRefreshes)

\* ------------------------------------------------ Recommendation Orchestrator
\* The synchronous part of loadRecommendations(): setLoading(true), the query
\* bundle of the mood this render closed over, and the three adapter calls
\* issued into Promise.all. Calls in flight are left alone.
NewRefresh(mood) ==
    [mood |-> mood, pending |-> Adapters, failed |-> {}, rejected |-> FALSE,
     overlap |-> SomeInFlight]

\* Faulty variant of StartRefresh: a new refresh aborts the calls still in flight.
StartRefresh_Cancelling(mood) == <<NewRefresh(mood)>>

StartRefresh(mood) ==
    LET live == SelectSeq(refreshes, InFlight)
        old == [i \in 1..Len(live) |-> [live[i] EXCEPT !.overlap = TRUE]]
    IN Append(old, NewRefresh(mood))

loadRecommendations(mood) ==
    /\ budget > 0
    /\ budget' = budget - 1
    /\ loading' = TRUE
    /\ refreshes' = StartRefresh(mood)
    /\ refreshCount' = refreshCount + 1
    /\ calls' = [a \in Adapters |-> calls[a] + 1]

\* Faulty variant of PromiseAllResolved: the join short-circuits on the first failed
\* adapter.
PromiseAllResolved_ShortCircuit(r) ==
    (r.pending = {} \/ r.failed # {}) /\ ~r.rejected

\* Promise.all over the three adapter promises: it resolves once all three
\* have resolved, and rejects as soon as one rejects.
PromiseAllResolved(r) == r.pending = {} /\ ~r.rejected

\* The continuation of loadRecommendations() after await Promise.all:
\* setLoading(false).
LoadingAfter(r) == IF PromiseAllResolved(r) THEN FALSE ELSE loading

\* The record of refresh i after its adapter a settled with `resp`.
Settled(i, a, failed, out) ==
    [refreshes[i] EXCEPT !.pending = @ \ {a},
                         !.failed = IF failed THEN @ \cup {a} ELSE @,
                         !.rejected = @ \/ out.rejects]

\* refreshes once refresh i has become r: a settled refresh is kept only
\* while it is the latest one.
RefreshesAfter(i, r) ==
    IF ~InFlight(r) /\ i < Len(refreshes)
    THEN SubSeq(refreshes, 1, i - 1) \o SubSeq(refreshes, i + 1, Len(refreshes))
    ELSE [refreshes EXCEPT ![i] = r]

\* Faulty variant of AudiusSettles: a failed track call is issued once more.
AudiusSettles_Retries(i, resp) ==
    LET out == fetchAudiusTracks(resp, tracks)
        retry == Failed(resp, MalformedTracks) /\ calls["tracks"] <= refreshCount
        r == IF retry THEN refreshes[i]
             ELSE Settled(i, "tracks", Failed(resp, MalformedTracks), out)
    IN /\ "tracks" \in refreshes[i].pending
       /\ tracks' = out.list
       /\ toasts' = toasts + out.toasts
       /\ loading' = LoadingAfter(r)
       /\ refreshes' = RefreshesAfter(i, r)
       /\ calls' = IF retry THEN [calls EXCEPT !["tracks"] = @ + 1] ELSE calls
       /\ UNCHANGED <<videos, books, mounted, user, currentMood, refreshCount,
                      budget, moodPending, uiVars, relay>>

\* The track adapter call of refresh i settles with resp.
AudiusSettles(i, resp) ==
    LET out == fetchAudiusTracks(resp, tracks)
        r == Settled(i, "tracks", Failed(resp, MalformedTracks), out)
    IN /\ "tracks" \in refreshes[i].pending
       /\ tracks' = out.list
       /\ toasts' = toasts + out.toasts
       /\ loading' = LoadingAfter(r)
       /\ refreshes' = RefreshesAfter(i, r)
       /\ UNCHANGED <<videos, books, mounted, user, currentMood, refreshCount,
                      calls, budget, moodPending, uiVars, relay>>

\* The video adapter call of refresh i settles with resp.
YouTubeSettles(i, resp) ==
    LET out == fetchYouTubeVideos(resp, videos)
        r == Settled(i, "videos", Failed(resp, MalformedVideos), out)
    IN /\ "videos" \in refreshes[i].pending
       /\ videos' = out.list
       /\ toasts' = toasts + out.toasts
       /\ loading' = LoadingAfter(r)
       /\ refreshes' = RefreshesAfter(i, r)
       /\ UNCHANGED <<tracks, books, mounted, user, currentMood, refreshCount,
                      calls, budget, moodPending, uiVars, relay>>

\* The book adapter call of refresh i settles with resp.
BooksSettles(i, resp) ==
    LET out == fetchBooks(resp, books)
        r == Settled(i, "books", Failed(resp, MalformedBooks), out)
    IN /\ "books" \in refreshes[i].pending
       /\ books' = out.list
       /\ toasts' = toasts + out.toasts
       /\ loading' = LoadingAfter(r)
       /\ refreshes' = RefreshesAfter(i, r)
       /\ UNCHANGED <<tracks, videos, mounted, user, currentMood, refreshCount,
                      calls, budget, moodPending, uiVars, relay>>

\* ------------------------------------------------------------------ effects
\* fetchUserMood(), as far as its await: nothing without a user.
fetchUserMood(u) ==
    IF u = NoUser
    THEN UNCHANGED moodPending
    ELSE moodPending' = moodPending + 1

\* First render: useEffect(..., [user]) runs fetchUserMood() and
\* useEffect(..., [currentMood]) runs loadRecommendations() if (currentMood).
Mount ==
    /\ ~mounted
    /\ mounted' = TRUE
    /\ fetchUserMood(user)
    /\ IF currentMood # 0
       THEN loadRecommendations(currentMood)
       ELSE UNCHANGED <<loading, refreshes, refreshCount, calls, budget>>
    /\ UNCHANGED <<tracks, videos, books, user, currentMood, toasts, uiVars,
                   lastEvent, relay>>

\* The auth context, which holds no user until the session is known, delivers
\* the signed-in user: the [user] effect runs again.
UserChanges(u) ==
    /\ mounted
    /\ user = NoUser
    /\ u # NoUser
    /\ user' = u
    /\ fetchUserMood(u)
    /\ UNCHANGED <<batchVars, mounted, currentMood, toasts, refreshes, refreshCount,
                   calls, budget, uiVars, lastEvent, relay>>

\* Faulty variant of MoodSettles: the recommendations are reloaded whenever
\* the mood query settles, whether or not the mood has changed.
MoodSettles_AlwaysReloads(res) ==
    /\ moodPending > 0
    /\ moodPending' = moodPending - 1
    /\ currentMood' = IF res.row THEN res.mood_value ELSE currentMood
    /\ loadRecommendations(currentMood')
    /\ lastEvent' = [op |-> IF res.row THEN "moodRow" ELSE "moodNoRow",
                     arg |-> <<>>, was |-> <<currentMood>>]
    /\ UNCHANGED <<tracks, videos, books, mounted, user, toasts, uiVars, relay>>

\* The mood query settles. A row sets currentMood; a changed currentMood
\* re-renders and the [currentMood] effect runs loadRecommendations().
MoodSettles(res) ==
    /\ moodPending > 0
    /\ moodPending' = moodPending - 1
    /\ currentMood' = IF res.row THEN res.mood_value ELSE currentMood
    /\ IF currentMood' # currentMood /\ currentMood' # 0
       THEN loadRecommendations(currentMood')
       ELSE UNCHANGED <<loading, refreshes, refreshCount, calls, budget>>
    /\ lastEvent' = [op |-> IF res.row THEN "moodRow" ELSE "moodNoRow",
                     arg |-> <<>>, was |-> <<currentMood>>]
    /\ UNCHANGED <<tracks, videos, books, mounted, user, toasts, uiVars, relay>>

\* Faulty variant of RefreshClick: the handler is the one of the first
\* render, which closed over the default mood.
RefreshClick_StaleClosure ==
    /\ mounted
    /\ ~loading
    /\ loadRecommendations(DefaultMood)
    /\ lastEvent' = [op |-> "RefreshClick", arg |-> <<>>, was |-> <<currentMood>>]
    /\ UNCHANGED <<tracks, videos, books, mounted, user, currentMood, toasts,
                   moodPending, uiVars, relay>>

\* The Refresh Recommendations button: disabled={loading}.
RefreshClick ==
    /\ mounted
    /\ ~loading
    /\ loadRecommendations(currentMood)
    /\ lastEvent' = [op |-> "RefreshClick", arg |-> <<>>, was |-> <<currentMood>>]
    /\ UNCHANGED <<tracks, videos, books, mounted, user, currentMood, toasts,
                   moodPending, uiVars, relay>>

TracksSettle ==
    /\ \E i \in 1..Len(refreshes) :
          \E resp \in TrackResponses(QueryOf("tracks", refreshes[i].mood)) :
              AudiusSettles(i, resp)
    /\ UNCHANGED lastEvent
VideosSettle ==
    /\ \E i \in 1..Len(refreshes) :
          \E resp \in VideoResponses(QueryOf("videos", refreshes[i].mood)) :
              YouTubeSettles(i, resp)
    /\ UNCHANGED lastEvent
BooksSettle ==
    /\ \E i \in 1..Len(refreshes) :
          \E resp \in BookResponses(QueryOf("books", refreshes[i].mood)) :
              BooksSettles(i, resp)
    /\ UNCHANGED lastEvent

Next ==
    \/ Mount
    \/ \E u \in Users : UserChanges(u)
    \/ \E res \in MoodResults : MoodSettles(res)
    \/ RefreshClick
    \/ TracksSettle
    \/ VideosSettle
    \/ BooksSettle

Spec == Init /\ [][Next]_vars

\* --------------------------------------------------- Playback State Machine
\* The ids of the track cards on the page: tracks.map((track) => ...).
RenderedTrackIds == {tracks.a[k].id : k \in 1..Len(tracks.a)}

\* Recommendations.tsx: the Play/Pause button of a track card. It toggles the
\* id in playingTracks and touches no <audio> element.
playTrack(trackId) ==
    /\ trackId \in RenderedTrackIds
    /\ playingTracks' = IF trackId \in playingTracks
                        THEN playingTracks \ {trackId}
                        ELSE playingTracks \cup {trackId}
    /\ lastEvent' = [op |-> "playTrack", arg |-> <<trackId>>, was |-> <<>>]
    /\ UNCHANGED <<batchVars, orchVars, audioPlaying, playVars0, selectedBook, relay>>

\* Recommendations.tsx: a card's <audio controls> starts playing through its
\* native controls and fires onPlay. Every card has its own element.
audioOnPlay(trackId) ==
    /\ trackId \in RenderedTrackIds
    /\ trackId \notin audioPlaying
    /\ audioPlaying' = audioPlaying \cup {trackId}
    /\ playingTracks' = playingTracks \cup {trackId}
    /\ lastEvent' = [op |-> "audioOnPlay", arg |-> <<trackId>>, was |-> <<>>]
    /\ UNCHANGED <<batchVars, orchVars, playVars0, selectedBook, relay>>

\* Recommendations.tsx: a playing <audio> is paused through its native
\* controls, or ends, and fires onPause.
audioOnPause(trackId) ==
    /\ trackId \in audioPlaying
    /\ audioPlaying' = audioPlaying \ {trackId}
    /\ playingTracks' = playingTracks \ {trackId}
    /\ lastEvent' = [op |-> "audioOnPause", arg |-> <<trackId>>, was |-> <<>>]
    /\ UNCHANGED <<batchVars, orchVars, playVars0, selectedBook, relay>>

\* Faulty variant of playTrack_part000: pausing clears the current track and
\* forgets setIsPlaying(false).
playTrack_part000_KeepsPlaying(trackId) ==
    /\ trackId \in RenderedTrackIds
    /\ IF currentTrack = trackId /\ isPlaying
       THEN /\ isPlaying' = isPlaying
            /\ currentTrack' = NoTrack
       ELSE /\ currentTrack' = trackId
            /\ isPlaying' = TRUE
    /\ lastEvent' = [op |-> "playTrack_part000", arg |-> <<trackId>>,
                     was |-> <<currentTrack>>]
    /\ UNCHANGED <<batchVars, orchVars, playVars, selectedBook, relay>>

\* part_000: the Play/Pause button of a track card.
playTrack_part000(trackId) ==
    /\ trackId \in RenderedTrackIds
    /\ IF currentTrack = trackId /\ isPlaying
       THEN /\ isPlaying' = FALSE
            /\ currentTrack' = NoTrack
       ELSE /\ currentTrack' = trackId
            /\ isPlaying' = TRUE
    /\ lastEvent' = [op |-> "playTrack_part000", arg |-> <<trackId>>,
                     was |-> <<currentTrack>>]
    /\ UNCHANGED <<batchVars, orchVars, playVars, selectedBook, relay>>

\* part_000: the <audio> element, rendered for the current track only, fires
\* onPause (native pause, or the track ended).
onPause_part000 ==
    /\ currentTrack # NoTrack
    /\ isPlaying' = FALSE
    /\ lastEvent' = [op |-> "onPause_part000", arg |-> <<currentTrack>>,
                     was |-> <<currentTrack>>]
    /\ UNCHANGED <<batchVars, orchVars, playVars, currentTrack, selectedBook, relay>>

\* part_000: the <audio> element of the current track fires onPlay.
onPlay_part000 ==
    /\ currentTrack # NoTrack
    /\ isPlaying' = TRUE
    /\ lastEvent' = [op |-> "onPlay_part000", arg |-> <<currentTrack>>,
                     was |-> <<currentTrack>>]
    /\ UNCHANGED <<batchVars, orchVars, playVars, currentTrack, selectedBook, relay>>

\* The track call of a refresh settles with the provider's catalogue.
TracksArrive ==
    /\ \E i \in 1..Len(refreshes) :
          AudiusSettles(i, [kind |-> "json",
                            field |-> Arr(TrackCatalogue(QueryOf("tracks", refreshes[i].mood)))])
    /\ UNCHANGED lastEvent

\* The playback machines of both variants of the page, on the track cards of
\* the first refresh.
PlaybackNext ==
    \/ Mount
    \/ TracksArrive
    \/ \E t \in RenderedTrackIds : playTrack(t)
    \/ \E t \in RenderedTrackIds : audioOnPlay(t)
    \/ \E t \in RenderedTrackIds : audioOnPause(t)
    \/ \E t \in RenderedTrackIds : playTrack_part000(t)
    \/ onPause_part000
    \/ onPlay_part000

PlaybackSpec == Init /\ [][PlaybackNext]_vars

\* Every provider call eventually settles: the assumption under which the
\* orchestrator's progress is stated.
FairSpec ==
    /\ Spec
    /\ WF_vars(TracksSettle)
    /\ WF_vars(VideosSettle)
    /\ WF_vars(BooksSettle)

\* ------------------------------------------------------------------- claims
\* A refresh that has never shared the page with another refresh in flight.
Alone(r) == InFlight(r) /\ ~r.overlap

\* C1: whenever some adapter call of a started refresh is still unsettled,
\* loading is true (also when refreshes overlap).
C1_LoadingWhileInFlight == SomeInFlight => loading = TRUE

\* C2: a refresh that overlaps no other refresh issues its three calls
\* together and keeps loading true until all three have settled, whatever the
\* outcome of the calls that settled first.
C2_AllOfJoin ==
    /\ [](\A i \in 1..Len(refreshes) : Alone(refreshes[i]) => loading = TRUE)
    /\ [][refreshCount' # refreshCount
            => refreshes'[Len(refreshes')].pending = Adapters]_vars

\* C2 witness: in a refresh on its own two calls have failed and the third is
\* still in flight.
C2_Witness ==
    \E i \in 1..Len(refreshes) :
        /\ Alone(refreshes[i])
        /\ Cardinality(refreshes[i].failed) = 2
        /\ Cardinality(refreshes[i].pending) = 1
        /\ loading = TRUE

\* C3: once a refresh has started and no adapter call is in flight, loading is
\* false; and, every provider call settling eventually, calls in flight lead
\* to a state with none in flight and loading false.
C3_AlwaysClearsLoading ==
    /\ [](refreshCount > 0 /\ ~SomeInFlight => loading = FALSE)
    /\ (SomeInFlight ~> (~SomeInFlight /\ loading = FALSE))

\* C3 witness: two refreshes have run, calls of the last one failed in every
\* way, and loading is cleared.
C3_Witness ==
    /\ refreshCount = MaxRefreshes
    /\ ~SomeInFlight
    /\ refreshes[Len(refreshes)].failed = Adapters
    /\ toasts > 0
    /\ loading = FALSE

\* The latest loadRecommendations() call, once it has settled on its own.
Latest == refreshes[Len(refreshes)]
LatestSettledAlone ==
    /\ refreshes # <<>>
    /\ ~SomeInFlight
    /\ ~Latest.overlap

\* C4: once a refresh has settled, the list of every adapter whose call
\* failed in it is the empty list, whatever the list held before.
C4_FailureYieldsEmptyList ==
    LatestSettledAlone =>
        /\ "tracks" \in Latest.failed => tracks = EmptyList
        /\ "videos" \in Latest.failed => videos = EmptyList
        /\ "books" \in Latest.failed => books = EmptyList

\* C5: an adapter call emits exactly one toast if it fails and none if it
\* succeeds, for each of the three adapters.
ToastsFor(failed) == IF failed THEN 1 ELSE 0
C5_OneToastPerFailedCall ==
    [][\A i \in 1..Len(refreshes) :
         /\ \A resp \in TrackResponses(QueryOf("tracks", refreshes[i].mood)) :
              AudiusSettles(i, resp)
                => toasts' = toasts + ToastsFor(Failed(resp, MalformedTracks))
         /\ \A resp \in VideoResponses(QueryOf("videos", refreshes[i].mood)) :
              YouTubeSettles(i, resp)
                => toasts' = toasts + ToastsFor(Failed(resp, MalformedVideos))
         /\ \A resp \in BookResponses(QueryOf("books", refreshes[i].mood)) :
              BooksSettles(i, resp)
                => toasts' = toasts + ToastsFor(Failed(resp, MalformedBooks))
      ]_vars

\* Every item of the list carries the query q.
ItemsOf(list, q) ==
    /\ list.t = "array"
    /\ \A k \in 1..Len(list.a) :
          "query" \in DOMAIN list.a[k] /\ list.a[k].query = q

\* C6: a refresh in which the video call failed and the track and book calls
\* succeeded completes with loading false, videos empty, tracks and books
\* holding those calls' own results, and (in the page's first refresh) one toast.
C6_VideoFailureIsolated ==
    (LatestSettledAlone /\ Latest.failed = {"videos"}) =>
        /\ loading = FALSE
        /\ videos = EmptyList
        /\ ItemsOf(tracks, QueryOf("tracks", Latest.mood))
        /\ ItemsOf(books, QueryOf("books", Latest.mood))
        /\ refreshCount = 1 => toasts = 1

\* ----------------------------------------------------------------- view layer
\* Rendering list.map(item => ...) throws a TypeError when the list is not an
\* array or an item lacks a field the card dereferences: track.user.name,
\* video.id.videoId and video.snippet.title, book.volumeInfo.title.
MapThrows(list, fields) ==
    \/ list.t # "array"
    \/ \E k \in 1..Len(list.a) : ~(fields \subseteq DOMAIN list.a[k])
RenderThrows ==
    \/ MapThrows(tracks, {"user"})
    \/ MapThrows(videos, {"id", "snippet"})
    \/ MapThrows(books, {"volumeInfo"})

\* ------------------------------------------------------- classifier at work
\* The mood scale shown on the page: ({currentMood}/10).
MoodScale == 1..10

\* The mood query settles with a row holding any value of the scale.
MoodReads(m) == MoodSettles([row |-> TRUE, mood_value |-> m])

\* The video / book call of a refresh settles with the provider's catalogue.
VideosArrive ==
    /\ \E i \in 1..Len(refreshes) :
          YouTubeSettles(i, [kind |-> "json",
                             field |-> Arr(VideoCatalogue(QueryOf("videos", refreshes[i].mood)))])
    /\ UNCHANGED lastEvent
BooksArrive ==
    /\ \E i \in 1..Len(refreshes) :
          BooksSettles(i, [kind |-> "json",
                           field |-> Arr(BookCatalogue(QueryOf("books", refreshes[i].mood)))])
    /\ UNCHANGED lastEvent

\* The page under every mood of the scale, its provider calls succeeding.
ClassifierNext ==
    \/ Mount
    \/ \E u \in Users : UserChanges(u)
    \/ \E m \in MoodScale : MoodReads(m)
    \/ TracksArrive
    \/ VideosArrive
    \/ BooksArrive

ClassifierSpec == Init /\ [][ClassifierNext]_vars

\* The page with one more loadRecommendations() call to explore, its provider
\* calls succeeding: the first render, a mood change and the Refresh button
\* in every order.
RefreshInit == InitState(MaxRefreshes + 1)

RefreshNext ==
    \/ Mount
    \/ \E u \in Users : UserChanges(u)
    \/ \E res \in MoodResults : MoodSettles(res)
    \/ RefreshClick
    \/ TracksArrive
    \/ VideosArrive
    \/ BooksArrive

RefreshSpec == RefreshInit /\ [][RefreshNext]_vars

\* ------------------------------------------------------ adapters on any page
\* Provider pages of any length up to MaxTracks / MaxItems: the track provider
\* is asked for 20 items, the video relay and the book provider for 6, and
\* nothing in the page makes them answer with that many.
UpstreamTracks(durs) ==
    [k \in 1..Len(durs) |->
        [id |-> k, title |-> "song", user |-> "artist", duration |-> durs[k]]]
\* Durations at the threshold and above it, in every order, and the durations
\* 15, 45, 200.
DurationSeqs ==
    UNION {[1..n -> {MinDuration, MinDuration + 15}] : n \in 0..MaxTracks}
    \cup {<<15, 45, 200>>}
UpstreamVideos(n) == [k \in 1..n |-> [id |-> k, snippet |-> "talk"]]
UpstreamBooks(n) == [k \in 1..n |-> [id |-> k, volumeInfo |-> "book"]]

\* The track call of a refresh settles with a page of tracks.
TracksArriveWith(durs) ==
    /\ \E i \in 1..Len(refreshes) :
          AudiusSettles(i, [kind |-> "json", field |-> Arr(UpstreamTracks(durs))])
    /\ lastEvent' = [op |-> "tracks", arg |-> durs, was |-> <<>>]

\* The video call of a refresh settles with n items.
VideosArriveWith(n) ==
    /\ \E i \in 1..Len(refreshes) :
          YouTubeSettles(i, [kind |-> "json", field |-> Arr(UpstreamVideos(n))])
    /\ UNCHANGED lastEvent

\* The book call of a refresh settles with n items.
BooksArriveWith(n) ==
    /\ \E i \in 1..Len(refreshes) :
          BooksSettles(i, [kind |-> "json", field |-> Arr(UpstreamBooks(n))])
    /\ UNCHANGED lastEvent

\* A page that is empty, as long as asked for, or longer.
PageLengths == {0, PageSize, MaxItems}

AdapterNext ==
    \/ Mount
    \/ \E durs \in DurationSeqs : TracksArriveWith(durs)
    \/ \E n \in PageLengths : VideosArriveWith(n)
    \/ \E n \in PageLengths : BooksArriveWith(n)

AdapterSpec == Init /\ [][AdapterNext]_vars

\* ------------------------------------------------------------ Detail Selection
\* The book cards on the page: books.map((book) => <Card onClick=...>). A
\* render that throws shows no card.
RenderedBooks ==
    IF RenderThrows THEN {} ELSE {books.a[k] : k \in 1..Len(books.a)}

\* Faulty variant of selectBook: an open detail is kept and the new one is
\* dropped.
selectBook_KeepsOpen(book) ==
    /\ book \in RenderedBooks
    /\ selectedBook' = IF selectedBook = NoBook THEN book ELSE selectedBook
    /\ lastEvent' = [op |-> "selectBook", arg |-> <<book.id>>,
                     was |-> <<selectedBook.id>>]
    /\ UNCHANGED <<batchVars, orchVars, playVars, playVars0, relay>>

\* A book card's onClick: setSelectedBook(book), whatever was selected.
selectBook(book) ==
    /\ book \in RenderedBooks
    /\ selectedBook' = book
    /\ lastEvent' = [op |-> "selectBook", arg |-> <<book.id>>,
                     was |-> <<selectedBook.id>>]
    /\ UNCHANGED <<batchVars, orchVars, playVars, playVars0, relay>>

\* Faulty variant of overlayClick: closing the detail also clears the set of
\* playing tracks.
overlayClick_StopsPlayback ==
    /\ selectedBook # NoBook
    /\ selectedBook' = NoBook
    /\ playingTracks' = {}
    /\ lastEvent' = [op |-> "overlayClick", arg |-> <<>>,
                     was |-> <<selectedBook.id>>]
    /\ UNCHANGED <<batchVars, orchVars, audioPlaying, playVars0, relay>>

\* The modal, rendered while selectedBook is set. A click on the overlay
\* around the detail: setSelectedBook(null).
overlayClick ==
    /\ selectedBook # NoBook
    /\ selectedBook' = NoBook
    /\ lastEvent' = [op |-> "overlayClick", arg |-> <<>>,
                     was |-> <<selectedBook.id>>]
    /\ UNCHANGED <<batchVars, orchVars, playVars, playVars0, relay>>

\* The modal's close button: setSelectedBook(null); the click then bubbles to
\* the detail content, which stops it.
closeButtonClick ==
    /\ selectedBook # NoBook
    /\ selectedBook' = NoBook
    /\ lastEvent' = [op |-> "closeButtonClick", arg |-> <<>>,
                     was |-> <<selectedBook.id>>]
    /\ UNCHANGED <<batchVars, orchVars, playVars, playVars0, relay>>

\* Faulty variant of contentClick: the click bubbles to the overlay's handler.
contentClick_Propagates ==
    /\ selectedBook # NoBook
    /\ selectedBook' = NoBook
    /\ lastEvent' = [op |-> "contentClick", arg |-> <<>>,
                     was |-> <<selectedBook.id>>]
    /\ UNCHANGED <<batchVars, orchVars, playVars, playVars0, relay>>

\* A click on the detail content: e.stopPropagation(), so the overlay's
\* handler does not run.
contentClick ==
    /\ selectedBook # NoBook
    /\ selectedBook' = selectedBook
    /\ lastEvent' = [op |-> "contentClick", arg |-> <<>>,
                     was |-> <<selectedBook.id>>]
    /\ UNCHANGED <<batchVars, orchVars, playVars, playVars0, relay>>

\* The detail selection on the book cards of the page's refreshes.
DetailNext ==
    \/ Mount
    \/ \E u \in Users : UserChanges(u)
    \/ \E res \in MoodResults : MoodSettles(res)
    \/ BooksSettle
    \/ \E book \in RenderedBooks : selectBook(book)
    \/ overlayClick
    \/ closeButtonClick
    \/ contentClick

DetailSpec == Init /\ [][DetailNext]_vars

\* C7: no adapter call rejects to Promise.all, and nothing is stored in
\* tracks, videos or books that the view layer cannot read.
C7_FailuresAbsorbed ==
    /\ \A i \in 1..Len(refreshes) : ~refreshes[i].rejected
    /\ ~RenderThrows

\* C8: starting a refresh cancels no adapter call in flight: every call that
\* was pending before the start is pending after it, under the mood it was
\* issued for, and will be applied when it settles.
C8_NoCancellation ==
    [][refreshCount' # refreshCount =>
         \A i \in 1..Len(refreshes) :
            InFlight(refreshes[i]) =>
               \E j \in 1..(Len(refreshes') - 1) :
                  /\ refreshes'[j].mood = refreshes[i].mood
                  /\ refreshes'[j].pending = refreshes[i].pending
      ]_vars

\* C8 witness: everything has settled, the latest refresh ran under the
\* current mood and its track call succeeded, yet tracks holds the items of
\* another query: the older refresh's response was applied last.
C8_Witness ==
    /\ refreshCount = 2
    /\ ~SomeInFlight
    /\ Latest.mood = currentMood
    /\ "tracks" \notin Latest.failed
    /\ tracks.a # <<>>
    /\ \E q \in {QueryOf("tracks", m) : m \in MoodReadings} :
          q # QueryOf("tracks", currentMood) /\ ItemsOf(tracks, q)

\* C9: at most one track is in the playing state.
C9_AtMostOnePlaying == Cardinality(playingTracks) <= 1

\* Idle: no track is active, as at page load.
Idle == playingTracks = {} /\ audioPlaying = {}
Idle_part000 == currentTrack = NoTrack

\* C10: a toggle never leaves the machine in Idle: toggling the track that is
\* playing pauses it and keeps it the active track. Stated for both variants
\* of playTrack.
C10_ToggleNeverReturnsToIdle ==
    [][\A t \in RenderedTrackIds :
          /\ playTrack(t) => ~Idle'
          /\ playTrack_part000(t) => ~Idle_part000'
      ]_vars

\* C11: part_000's playback state: whenever no current track is set,
\* isPlaying is false, under every interleaving of Play/Pause clicks and the
\* <audio> element's onPlay / onPause events.
C11_NoTrackNotPlaying == currentTrack = NoTrack => isPlaying = FALSE

\* C11 witness: the Play/Pause button was clicked on the current track while
\* it was playing, which cleared the current track.
C11_Witness ==
    /\ lastEvent.op = "playTrack_part000"
    /\ lastEvent.arg = lastEvent.was
    /\ currentTrack = NoTrack
    /\ isPlaying = FALSE

\* A step of the playback machine: a Play/Pause click or a media-layer signal,
\* in either variant of the page.
PlaybackStep ==
    \/ \E t \in RenderedTrackIds \cup audioPlaying :
          playTrack(t) \/ audioOnPlay(t) \/ audioOnPause(t) \/ playTrack_part000(t)
    \/ onPause_part000
    \/ onPlay_part000

\* C12: a media-layer pause / ended signal for the track that is playing
\* leaves that track the active track, paused (the machine is not back in
\* Idle), with no toast; and the playback state changes in no step other than
\* a Play/Pause click or a media-layer signal. Stated for both variants.
C12_MediaSignalPauses ==
    [][/\ \A t \in audioPlaying :
             (t \in playingTracks /\ audioOnPause(t))
                => (t \notin playingTracks' /\ ~Idle' /\ toasts' = toasts)
       /\ (isPlaying /\ onPause_part000)
             => (currentTrack' = currentTrack /\ ~isPlaying' /\ toasts' = toasts)
       /\ (playVars' # playVars \/ playVars0' # playVars0) => PlaybackStep
      ]_vars

\* C13: at most one book detail is open; selecting a book opens it, whether
\* no detail or another book's detail was open (it replaces); a close yields
\* Closed.
C13_SelectionReplaces ==
    /\ [](selectedBook = NoBook \/ selectedBook \in RenderedBooks
            \/ "volumeInfo" \in DOMAIN selectedBook)
    /\ [][/\ \A book \in RenderedBooks : selectBook(book) => selectedBook' = book
          /\ (overlayClick \/ closeButtonClick) => selectedBook' = NoBook
         ]_vars

\* C13 witness: book Y was selected while the detail of book X was open, and
\* Y is the open detail.
C13_Witness ==
    /\ lastEvent.op = "selectBook"
    /\ lastEvent.was = <<"X">>
    /\ lastEvent.arg = <<"Y">>
    /\ selectedBook.id = "Y"

\* C14: with a detail open, the close button and a click on the overlay each
\* close it, and a click on the detail content leaves it open on the same book.
C14_CloseGestures ==
    [][selectedBook # NoBook =>
         /\ closeButtonClick => selectedBook' = NoBook
         /\ overlayClick => selectedBook' = NoBook
         /\ contentClick => selectedBook' = selectedBook
      ]_vars

\* C14 witness: the detail content of book X was clicked and X is still open.
C14_Witness ==
    /\ lastEvent.op = "contentClick"
    /\ lastEvent.was = <<"X">>
    /\ selectedBook.id = "X"

\* The positions of a page of durations that hold a full track, and the
\* position of the j-th of them.
Qualifying(durs) == {k \in 1..Len(durs) : durs[k] > 30}
NthQualifying(durs, j) ==
    CHOOSE k \in Qualifying(durs) :
        Cardinality({h \in Qualifying(durs) : h <= k}) = j
\* The first six full tracks of a page, in the provider's order.
FirstFullTracks(durs) ==
    LET n == Cardinality(Qualifying(durs))
    IN [j \in 1..(IF n < 6 THEN n ELSE 6) |->
            UpstreamTracks(durs)[NthQualifying(durs, j)]]

C16_PageSizeCap ==
    /\ videos.t = "array" => Len(videos.a) <= 6
    /\ books.t = "array" => Len(books.a) <= 6

\* The three fixed query bundles, lowest band first.
Bundles ==
    << [musicQuery |-> "relaxing meditation ambient",
        podcastQuery |-> "mental health therapy mindfulness",
        bookQuery |-> "self help depression anxiety"],
       [musicQuery |-> "chill peaceful calm",
        podcastQuery |-> "motivation wellness lifestyle",
        bookQuery |-> "psychology happiness mindfulness"],
       [musicQuery |-> "uplifting energetic positive",
        podcastQuery |-> "success motivation inspiration",
        bookQuery |-> "personal development success happiness"] >>
\* The band a mood is classified into.
BandIndex(m) == CHOOSE b \in 1..3 : getMoodBasedContent(m) = Bundles[b]

\* C17: for every mood of 1..10 the classifier returns one of the three
\* bundles: the low one iff mood <= 3, the middle one iff 4 <= mood <= 6, the
\* high one iff mood >= 7; the band never decreases as the mood grows; and
\* the mood the page is in is one the classifier is defined on.
C17_ClassifyBands ==
    /\ currentMood \in 1..10
    /\ \A m \in 1..10 :
          /\ \E b \in 1..3 : getMoodBasedContent(m) = Bundles[b]
          /\ getMoodBasedContent(m) = Bundles[1] <=> m <= 3
          /\ getMoodBasedContent(m) = Bundles[2] <=> (4 <= m /\ m <= 6)
          /\ getMoodBasedContent(m) = Bundles[3] <=> m >= 7
    /\ \A m1, m2 \in 1..10 : m1 <= m2 => BandIndex(m1) <= BandIndex(m2)

\* C17 witness: the mood read is 7, the lowest of the high band, and the
\* tracks on the page are those of the high bundle's music query.
C17_Witness ==
    /\ currentMood = 7
    /\ tracks.a # <<>>
    /\ ItemsOf(tracks, "uplifting energetic positive")

\* C18: the first render starts one refresh at once, under the default mood 5
\* and the middle bundle, without waiting for the mood query (none is sent
\* without a user); a mood query that yields no row or an error changes
\* neither the mood nor the refreshes; and, the mood unchanged, a refresh is
\* started by nothing but the first render and the Refresh button.
C18_NoReadingDefaults ==
    /\ [](user = NoUser =>
            /\ currentMood = 5
            /\ moodPending = 0
            /\ \A i \in 1..Len(refreshes) : refreshes[i].mood = 5)
    /\ [][/\ Mount =>
               /\ loading' = TRUE
               /\ refreshCount' = 1
               /\ Len(refreshes') = 1
               /\ refreshes'[1].mood = 5
               /\ refreshes'[1].pending = Adapters
               /\ getMoodBasedContent(refreshes'[1].mood) = Bundles[2]
          /\ \A res \in MoodResults :
                (~res.row /\ MoodSettles(res)) =>
                    /\ currentMood' = currentMood
                    /\ refreshCount' = refreshCount
                    /\ refreshes' = refreshes
          /\ (refreshCount' # refreshCount /\ currentMood' = currentMood) =>
                (Mount \/ RefreshClick)
         ]_vars

\* C18 witness: the mood query has come back without a row; the mood is still
\* 5, the only refresh is the one of the first render, it has settled, and
\* the books on the page are those of the middle bundle.
C18_Witness ==
    /\ lastEvent.op = "moodNoRow"
    /\ currentMood = 5
    /\ refreshCount = 1
    /\ ~SomeInFlight
    /\ loading = FALSE
    /\ books.t = "array" /\ books.a # <<>>
    /\ ItemsOf(books, "psychology happiness mindfulness")

\* This step starts exactly one refresh, under mood m: one new record with
\* its three calls issued, and one more call to each provider.
StartsOneRefresh(m) ==
    /\ refreshCount' = refreshCount + 1
    /\ Len(refreshes') = Len(SelectSeq(refreshes, InFlight)) + 1
    /\ refreshes'[Len(refreshes')].mood = m
    /\ refreshes'[Len(refreshes')].pending = Adapters
    /\ \A a \in Adapters : calls'[a] = calls[a] + 1

\* C19: a change of the mood to another value of 1..10, and the first
\* render, each start exactly one refresh under the mood then observed; a
\* click on Refresh starts exactly one refresh under the mood observed last.
C19_RefreshUnderLatestMood ==
    [][/\ (currentMood' # currentMood /\ currentMood' \in 1..10)
            => StartsOneRefresh(currentMood')
       /\ Mount => StartsOneRefresh(currentMood)
       /\ RefreshClick => (StartsOneRefresh(currentMood) /\ currentMood' = currentMood)
      ]_vars

\* C19 witness: the mood went from 5 to 8, then Refresh was clicked; the
\* third refresh ran under 8 and the tracks on the page are those of the high
\* bundle.
C19_Witness ==
    /\ lastEvent.op = "RefreshClick"
    /\ lastEvent.was = <<8>>
    /\ refreshCount = 3
    /\ currentMood = 8
    /\ ~SomeInFlight
    /\ Latest.mood = 8
    /\ tracks.a # <<>>
    /\ ItemsOf(tracks, "uplifting energetic positive")

\* C20: every provider has been called exactly as often as refreshes were
\* started; a provider is called only in a step that starts a refresh (the
\* first render, a mood change, a click on Refresh); and no call that has
\* settled, failed or not, is ever pending again.
C20_NoRetry ==
    /\ [](\A a \in Adapters : calls[a] = refreshCount)
    /\ [][/\ calls' # calls =>
               /\ refreshCount' = refreshCount + 1
               /\ Mount \/ RefreshClick \/ currentMood' # currentMood
          /\ refreshCount' = refreshCount =>
               \A j \in 1..Len(refreshes') :
                  \E i \in 1..Len(refreshes) :
                     /\ refreshes'[j].mood = refreshes[i].mood
                     /\ refreshes'[j].pending \subseteq refreshes[i].pending
         ]_vars

\* C20 witness: the three calls of the first refresh have all failed and
\* settled, and each provider has been called once.
C20_Witness ==
    /\ refreshCount = 1
    /\ ~SomeInFlight
    /\ Latest.failed = Adapters
    /\ \A a \in Adapters : calls[a] = 1

\* C21: no step sets loading to false while an adapter call of a started
\* refresh stays unsettled: as long as the call hangs, loading is true.
C21_HungCallKeepsLoading ==
    [][SomeInFlight' => loading' = TRUE]_vars

\* ------------------------------------------------------------ the whole page
\* Refreshes, the track cards' playback and the book detail on one page, the
\* provider calls succeeding.
PageNext ==
    \/ Mount
    \/ \E u \in Users : UserChanges(u)
    \/ \E res \in MoodResults : MoodSettles(res)
    \/ RefreshClick
    \/ TracksArrive
    \/ VideosArrive
    \/ BooksArrive
    \/ \E t \in RenderedTrackIds : playTrack(t)
    \/ \E t \in RenderedTrackIds : audioOnPlay(t)
    \/ \E t \in RenderedTrackIds : audioOnPause(t)
    \/ \E book \in RenderedBooks : selectBook(book)
    \/ overlayClick
    \/ closeButtonClick
    \/ contentClick

PageSpec == Init /\ [][PageNext]_vars

Variants == {1, 2}

\* A JSON value in the body's query field, with its JavaScript type and what
\* String(value) gives. "undefined" is a body without the field.
JS(t, v) == [t |-> t, v |-> v]
QueryValues ==
    {JS("undefined", "undefined"), JS("null", "null"),
     JS("string", ""), JS("string", "calm"),
     JS("number", "0"), JS("number", "42"),
     JS("boolean", "false"), JS("boolean", "true"),
     JS("object", "[object Object]"), JS("array", "")}
\* !query
Falsy(q) ==
    \/ q.t \in {"undefined", "null"}
    \/ q.t = "string" /\ q.v = ""
    \/ q.t = "number" /\ q.v = "0"
    \/ q.t = "boolean" /\ q.v = "false"

\* What await req.json() and the destructuring { query } see: a body that
\* does not parse, the JSON value null, or a value with its query field.
RequestBodies ==
    {[kind |-> "unparseable"], [kind |-> "null"]}
    \cup {[kind |-> "object", query |-> q] : q \in QueryValues}
Requests ==
    {[method |-> "OPTIONS", body |-> [kind |-> "none"]]}
    \cup {[method |-> "POST", body |-> b] : b \in RequestBodies}

\* What the upstream search call settles with: fetch rejects, a status with
\* its body, the body being JSON or not.
Items == "{items:[...]}"
NoItems == "{}"
NotJson == "<html>"
UpstreamStatuses == {400, 403, 500, 503}
UpstreamAnswers ==
    {[kind |-> "neterr", status |-> 0, data |-> ""]}
    \cup {[kind |-> "http", status |-> st, data |-> "{error:...}"] :
            st \in UpstreamStatuses}
    \cup {[kind |-> "http", status |-> 200, data |-> d] :
            d \in {Items, NoItems, NotJson}}
\* response.ok
Ok(status) == 200 <= status /\ status <= 299

\* new Response(body, { status })
Respond(status, body) ==
    [do |-> "respond", status |-> status, body |-> body, q |-> ""]
\* await fetch(url), url carrying q
Fetch(q) == [do |-> "fetch", status |-> 0, body |-> "", q |-> q]

\* if (!query) of the first handler,
\* if (!query || typeof query !== "string") of the second.
QueryRejected(variant, query) ==
    IF variant = 1 THEN Falsy(query)
    ELSE Falsy(query) \/ query.t # "string"

\* Faulty variant of serve: the credential is looked up before the query is
\* checked.
serve_KeyFirst(variant, req, key) ==
    IF req.method = "OPTIONS" THEN Respond(200, "ok")
    ELSE IF req.body.kind \in {"unparseable", "null"}
         THEN Respond(500, "Internal server error")
    ELSE IF ~key THEN Respond(500, "YouTube API key not configured")
    ELSE IF QueryRejected(variant, req.body.query)
         THEN Respond(400, "Query parameter is required")
    ELSE Fetch(req.body.query.v)

\* The handler as far as its await fetch(...).
serve(variant, req, key) ==
    IF req.method = "OPTIONS" THEN Respond(200, "ok")
    ELSE IF req.body.kind \in {"unparseable", "null"}
         THEN Respond(500, "Internal server error")
    ELSE IF QueryRejected(variant, req.body.query)
         THEN Respond(400, "Query parameter is required")
    ELSE IF ~key THEN Respond(500, "YouTube API key not configured")
    ELSE Fetch(req.body.query.v)

\* The handler after its await fetch(...).
serveAfterFetch(up) ==
    IF up.kind = "neterr" THEN Respond(500, "Internal server error")
    ELSE IF ~Ok(up.status)
         THEN Respond(up.status, "Failed to fetch YouTube videos")
    ELSE IF up.data = NotJson THEN Respond(500, "Internal server error")
    ELSE Respond(200, up.data)

\* A request reaches a handler, the credential being configured or not.
RelayReceives(variant, req, key) ==
    LET r == serve(variant, req, key)
    IN /\ relay.phase \in {"idle", "done"}
       /\ relay.served < MaxRequests
       /\ relay' = [variant |-> variant, req |-> req, key |-> key,
                    phase |-> IF r.do = "fetch" THEN "upstream" ELSE "done",
                    upstream |-> IF r.do = "fetch" THEN <<r.q>> ELSE <<>>,
                    answer |-> [kind |-> "none"],
                    responses |-> IF r.do = "respond" THEN <<r>> ELSE <<>>,
                    served |-> relay.served + 1]
       /\ UNCHANGED <<batchVars, orchVars, uiVars, lastEvent>>

\* The upstream search call settles.
UpstreamSettles(up) ==
    /\ relay.phase = "upstream"
    /\ relay' = [relay EXCEPT !.phase = "done",
                              !.answer = up,
                              !.responses = Append(@, serveAfterFetch(up))]
    /\ UNCHANGED <<batchVars, orchVars, uiVars, lastEvent>>

RelayNext ==
    \/ \E variant \in Variants, req \in Requests, key \in BOOLEAN :
          RelayReceives(variant, req, key)
    \/ \E up \in UpstreamAnswers : UpstreamSettles(up)

RelaySpec == Init /\ [][RelayNext]_vars

\* C23: a request whose body parses and whose query is missing or is not a
\* string is answered with status 400, and no upstream call is made for it,
\* whichever handler receives it.
C23_NonStringQueryRejected ==
    (relay.req.method = "POST" /\ relay.req.body.kind = "object"
        /\ relay.req.body.query.t # "string")
    => /\ relay.upstream = <<>>
       /\ Len(relay.responses) = 1
       /\ relay.responses[1].status = 400

\* C24: the lists change only at the join. While a refresh is the only one
\* started, a step that changes tracks, videos or books leaves none of its
\* adapter calls unsettled.
C24_ListsChangeOnlyAtJoin ==
    [][(<<tracks, videos, books>>' # <<tracks, videos, books>>
            /\ refreshCount = 1)
        => ~SomeInFlight']_vars

\* C25: a search request is answered once and in a fixed order. A request
\* whose handling is over has exactly one response, and never more than one
\* upstream call was made for it; a missing or empty query is answered 400
\* whether or not the credential is configured; a string query without the
\* credential is answered 500 with no upstream call; with the credential the
\* upstream search is called once with the query, a non-success status of
\* the upstream becomes the status of the response, and a successful JSON
\* answer is returned as it is with status 200.
C25_RelayOrder ==
    LET q == relay.req.body.query
        up == relay.answer
        done == relay.phase = "done"
    IN /\ Len(relay.responses) = (IF done THEN 1 ELSE 0)
       /\ Len(relay.upstream) <= 1
       /\ (relay.req.method = "POST" /\ relay.req.body.kind = "object")
          => /\ Falsy(q)
                => relay.responses[1].status = 400 /\ relay.upstream = <<>>
             /\ (q.t = "string" /\ ~Falsy(q) /\ ~relay.key)
                => relay.responses[1].status = 500 /\ relay.upstream = <<>>
             /\ (q.t = "string" /\ ~Falsy(q) /\ relay.key)
                => /\ relay.upstream = <<q.v>>
                   /\ (done /\ up.kind = "http" /\ ~Ok(up.status))
                      => relay.responses[1].status = up.status
                   /\ (done /\ up.kind = "http" /\ Ok(up.status)
                          /\ up.data # NotJson)
                      => /\ relay.responses[1].status = 200
                         /\ relay.responses[1].body = up.data
\* The upstream has refused a search with status 403 and the relay has
\* answered the request.
C25_Witness ==
    /\ relay.phase = "done"
    /\ relay.upstream # <<>>
    /\ relay.answer.kind = "http"
    /\ relay.answer.status = 403
    /\ Len(relay.responses) = 1

\* C26: the Refresh button starts a refresh only in a state where no refresh
\* has an unsettled adapter call.
C26_ManualRefreshNeverOverlaps ==
    [][(lastEvent'.op = "RefreshClick" /\ refreshCount' = refreshCount + 1)
        => ~SomeInFlight]_vars

\* C27: the playing indicator agrees with the media layer: a track id is in
\* playingTracks exactly when that track's <audio> element is playing.
C27_IndicatorMatchesAudio == playingTracks = audioPlaying

\* A successful provider call: a parsed body whose field is missing, an empty
\* list or a page of the catalogue.
Successes(catalogue) ==
    {[kind |-> "json", field |-> f] : f \in {Undef, EmptyList, Arr(catalogue)}}
\* list holds nothing but items of the response field (nothing at all when
\* the field is missing).
Carries(list, field) ==
    /\ list.t = "array"
    /\ \A k \in 1..Len(list.a) :
          /\ field.t = "array"
          /\ \E j \in 1..Len(field.a) : field.a[j] = list.a[k]

\* C28: a successful adapter call replaces its list wholesale. After the
\* step in which it settles, the list holds only items of that call's
\* response, and it is empty when the response carries no items field.
C28_SuccessReplacesWholesale ==
    [][\A i \in 1..Len(refreshes) :
        /\ \A resp \in Successes(TrackCatalogue(QueryOf("tracks", refreshes[i].mood))) :
              AudiusSettles(i, resp) => Carries(tracks', resp.field)
        /\ \A resp \in Successes(VideoCatalogue(QueryOf("videos", refreshes[i].mood))) :
              YouTubeSettles(i, resp) => Carries(videos', resp.field)
        /\ \A resp \in Successes(BookCatalogue(QueryOf("books", refreshes[i].mood))) :
              BooksSettles(i, resp) => Carries(books', resp.field)
      ]_vars

====
